---- MODULE Spec2Model ----
(***************************************************************************)
(* A model of the request handlers of app.py (a Flask / SQLAlchemy /       *)
(* Flask-Login marketplace): the three tables User, Project and Bid, the   *)
(* per-browser login session, and the handlers register, login, logout,    *)
(* new_project, place_bid and accept_bid.                                  *)
(*                                                                         *)
(* Form values are sequences of one-character strings so that str.strip()  *)
(* and str.lower() are computed, not assumed.  Row ids are the positions   *)
(* in the table sequences (autoincrement primary keys, rows are never      *)
(* deleted).  Id 0 stands for the anonymous user of Flask-Login.           *)
(***************************************************************************)
EXTENDS Naturals, Sequences, FiniteSets

VARIABLES
    users,      \* table User:    Seq of [username, email, password_hash]
    projects,   \* table Project: Seq of [title, description, owner_id]
    bids,       \* table Bid:     Seq of [price, project_id, bidder_id, accepted]
    session,    \* per browser: the user id held by its login cookie, 0 = anonymous
    resp,       \* the response to the latest request
    req         \* accept_bid requests in flight (used by the interleaved specification)

vars == <<users, projects, bids, session, resp, req>>

----------------------------------------------------------------------------
(* Bounds of the model.                                                    *)

(* The database holds at most MaxRows rows, over its three tables. *)
MaxRows == 5

Rows == Len(users) + Len(projects) + Len(bids)

(* The same cap where accept_bid requests interleave. *)
MaxRowsConc == 4

Browsers == {"s1"}
Workers == {"w1", "w2"}

Anonymous == 0

(* Form inputs the requests are drawn from. *)
UsernameInputs == { <<>>, <<" ", "a">>, <<"b">> }
EmailInputs == { <<" ">>, <<"a", " ">>, <<"B">> }
PasswordInputs == { <<>>, <<"p">>, <<"q">> }
IdentifierInputs == { <<"a", " ">>, <<"b">>, <<"B">> }
TextInputs == { <<>>, <<" ">>, <<"t">> }

(* The forms posted: all fields filled in, or one field left out. *)
Filled(x) == \E i \in DOMAIN x : x[i] # " "
RegisterForms ==
    { f \in UsernameInputs \X EmailInputs \X PasswordInputs :
        Cardinality({i \in 1..3 : ~Filled(f[i])}) <= 1 }
ProjectForms ==
    { f \in TextInputs \X TextInputs :
        Cardinality({i \in 1..2 : ~Filled(f[i])}) <= 1 }

----------------------------------------------------------------------------
(* str.strip() and str.lower()                                             *)

RECURSIVE LStrip(_)
LStrip(s) == IF s # <<>> /\ Head(s) = " " THEN LStrip(Tail(s)) ELSE s

RECURSIVE RStrip(_)
RStrip(s) ==
    IF s # <<>> /\ s[Len(s)] = " " THEN RStrip(SubSeq(s, 1, Len(s) - 1)) ELSE s

Strip(s) == RStrip(LStrip(s))

LowerChar(c) ==
    CASE c = "A" -> "a"
      [] c = "B" -> "b"
      [] OTHER -> c

Lower(s) == [i \in DOMAIN s |-> LowerChar(s[i])]

----------------------------------------------------------------------------
(* werkzeug.security: a salted one-way hash, checked by recomputation.     *)

Salts == {"x"}

Digest(salt, password) == <<"h", salt>> \o password

generate_password_hash(password, salt) ==
    [salt |-> salt, digest |-> Digest(salt, password)]

check_password_hash(pwhash, password) ==
    pwhash.digest = Digest(pwhash.salt, password)

----------------------------------------------------------------------------
(* The response of a view, as the endpoint that answered and the HTTP      *)
(* status: every redirect (whatever its target and the message flashed) is *)
(* a 302, abort / get_or_404 / first_or_404 raise the error status.        *)
(* Flask-Login answers an anonymous request to a @login_required view by   *)
(* a redirect to login_view.                                               *)

Redirect(endpoint, to, category) == [endpoint |-> endpoint, status |-> 302]
Abort(endpoint, code) == [endpoint |-> endpoint, status |-> code]
Unauthorized(endpoint) == Redirect(endpoint, "login", "")
NoResponse == [endpoint |-> "", status |-> 0]

(* current_user.is_authenticated, and @login_required *)
IsAuthenticatedAlways(s) == TRUE

IsAuthenticated(s) == session[s] # Anonymous

Idle == [pc |-> "idle", project_id |-> 0, bid_id |-> 0,
         target_accepted |-> FALSE, loaded |-> <<>>]

Init ==
    /\ users = <<>>
    /\ projects = <<>>
    /\ bids = <<>>
    /\ session = [s \in Browsers |-> Anonymous]
    /\ resp = NoResponse
    /\ req = [w \in Workers |-> Idle]

----------------------------------------------------------------------------
(* register                                                                *)

DuplicateByUsernameOnly(username, email) ==
    \E i \in DOMAIN users : users[i].username = username

(* User.query.filter((User.username == username) | (User.email == email)).first() *)
DuplicateIdentity(username, email) ==
    \E i \in DOMAIN users :
        users[i].username = username \/ users[i].email = email

RegisterMissingIgnoresPassword(username, email, password) ==
    username = <<>> \/ email = <<>>

(* if not username or not email or not password *)
RegisterMissing(username, email, password) ==
    username = <<>> \/ email = <<>> \/ password = <<>>

Register(s, username_raw, email_raw, password, salt) ==
    LET username == Strip(username_raw)
        email == Lower(Strip(email_raw))
    IN  /\ UNCHANGED <<projects, bids, req>>
        /\ IF IsAuthenticated(s)
           THEN /\ resp' = Redirect("register", "index", "")
                /\ UNCHANGED <<users, session>>
           ELSE IF RegisterMissing(username, email, password)
           THEN /\ resp' = Redirect("register", "register", "danger")
                /\ UNCHANGED <<users, session>>
           ELSE IF DuplicateIdentity(username, email)
           THEN /\ resp' = Redirect("register", "register", "warning")
                /\ UNCHANGED <<users, session>>
           ELSE /\ Rows < MaxRows
                /\ users' = Append(users,
                       [username |-> username, email |-> email,
                        password_hash |-> generate_password_hash(password, salt)])
                /\ session' = [session EXCEPT ![s] = Len(users) + 1]
                /\ resp' = Redirect("register", "index", "success")

----------------------------------------------------------------------------
(* login                                                                   *)

(* the rows of User.query.filter((User.username==username) | (User.email==username)) *)
LoginMatches(username) ==
    { i \in DOMAIN users :
        users[i].username = username \/ users[i].email = username }

(* User.check_password *)
CheckPassword(i, password) == check_password_hash(users[i].password_hash, password)

(* .first() of a query without ORDER BY returns any one of the matching rows *)
Login(s, username_raw, password) ==
    LET username == Strip(username_raw)
    IN  /\ UNCHANGED <<users, projects, bids, req>>
        /\ IF IsAuthenticated(s)
           THEN /\ resp' = Redirect("login", "index", "")
                /\ UNCHANGED session
           ELSE IF LoginMatches(username) = {}
           THEN /\ resp' = Redirect("login", "login", "danger")
                /\ UNCHANGED session
           ELSE \E user \in LoginMatches(username) :
                  IF CheckPassword(user, password)
                  THEN /\ session' = [session EXCEPT ![s] = user]
                       /\ resp' = Redirect("login", "dashboard", "success")
                  ELSE /\ resp' = Redirect("login", "login", "danger")
                       /\ UNCHANGED session

----------------------------------------------------------------------------
(* logout                                                                  *)

Logout(s) ==
    /\ UNCHANGED <<users, projects, bids, req>>
    /\ IF ~IsAuthenticated(s)
       THEN /\ resp' = Unauthorized("logout")
            /\ UNCHANGED session
       ELSE /\ session' = [session EXCEPT ![s] = Anonymous]
            /\ resp' = Redirect("logout", "index", "info")

----------------------------------------------------------------------------
(* new_project (POST)                                                      *)

NewProject(s, title_raw, description_raw) ==
    LET title == Strip(title_raw)
        description == Strip(description_raw)
    IN  /\ UNCHANGED <<users, bids, session, req>>
        /\ IF ~IsAuthenticated(s)
           THEN /\ resp' = Unauthorized("new_project")
                /\ UNCHANGED projects
           ELSE IF title = <<>> \/ description = <<>>
           THEN /\ resp' = Redirect("new_project", "new_project", "warning")
                /\ UNCHANGED projects
           ELSE /\ Rows < MaxRows
                /\ projects' = Append(projects,
                       [title |-> title, description |-> description,
                        owner_id |-> session[s]])
                /\ resp' = Redirect("new_project", "project_detail", "success")

----------------------------------------------------------------------------
(* place_bid                                                               *)

NewBidAccepted(price, project_id, bidder_id) ==
    [price |-> price, project_id |-> project_id, bidder_id |-> bidder_id,
     accepted |-> TRUE]

(* Bid(price=..., project_id=..., bidder_id=...), accepted defaults to False *)
NewBid(price, project_id, bidder_id) ==
    [price |-> price, project_id |-> project_id, bidder_id |-> bidder_id,
     accepted |-> FALSE]

PlaceBid(s, project_id, price_raw) ==
    LET price == Strip(price_raw)
    IN  /\ UNCHANGED <<users, projects, session, req>>
        /\ IF ~IsAuthenticated(s)
           THEN /\ resp' = Unauthorized("place_bid")
                /\ UNCHANGED bids
           ELSE IF project_id \notin DOMAIN projects
           THEN /\ resp' = Abort("place_bid", 404)
                /\ UNCHANGED bids
           ELSE IF price = <<>>
           THEN /\ resp' = Redirect("place_bid", "project_detail", "warning")
                /\ UNCHANGED bids
           ELSE /\ Rows < MaxRows
                /\ bids' = Append(bids, NewBid(price, project_id, session[s]))
                /\ resp' = Redirect("place_bid", "project_detail", "success")

----------------------------------------------------------------------------
(* accept_bid                                                              *)

IsOwnerAlways(project_id, user) == TRUE

(* project.owner_id != current_user.id  ->  abort(403) *)
IsOwner(project_id, user) == projects[project_id].owner_id = user

BidExistsAnyProject(project_id, bid_id) == bid_id \in DOMAIN bids

(* Bid.query.filter_by(id=bid_id, project_id=project.id).first_or_404() *)
BidExists(project_id, bid_id) ==
    bid_id \in DOMAIN bids /\ bids[bid_id].project_id = project_id

(* project.bids: the lazy load of the Bid rows of the project.  The target *)
(* bid is already in the session's identity map, so it keeps the value     *)
(* read by the query that fetched it; the other rows get the value the     *)
(* database holds at the time of the load.                                 *)
LoadBids(db, project_id, bid_id, target_accepted) ==
    [i \in {j \in DOMAIN db : db[j].project_id = project_id} |->
        IF i = bid_id THEN target_accepted ELSE db[i].accepted]

InMemoryNoClear(loaded, bid_id) ==
    [i \in DOMAIN loaded |-> IF i = bid_id THEN TRUE ELSE loaded[i]]

InMemoryKeepTarget(loaded, bid_id) ==
    [i \in DOMAIN loaded |-> IF i = bid_id THEN loaded[i] ELSE FALSE]

(* for b in project.bids: b.accepted = False ; bid.accepted = True *)
InMemory(loaded, bid_id) == [i \in DOMAIN loaded |-> i = bid_id]

(* db.session.commit(): the unit of work emits an UPDATE for exactly the   *)
(* rows whose attribute differs from the loaded value, in one transaction. *)
Flush(db, loaded, bid_id) ==
    [i \in DOMAIN db |->
        IF i \in DOMAIN loaded /\ InMemory(loaded, bid_id)[i] # loaded[i]
        THEN [db[i] EXCEPT !.accepted = InMemory(loaded, bid_id)[i]]
        ELSE db[i]]

(* The handler run from start to end with no other request in between. *)
AcceptBid(s, project_id, bid_id) ==
    /\ UNCHANGED <<users, projects, session, req>>
    /\ IF ~IsAuthenticated(s)
       THEN /\ resp' = Unauthorized("accept_bid")
            /\ UNCHANGED bids
       ELSE IF project_id \notin DOMAIN projects
       THEN /\ resp' = Abort("accept_bid", 404)
            /\ UNCHANGED bids
       ELSE IF ~IsOwner(project_id, session[s])
       THEN /\ resp' = Abort("accept_bid", 403)
            /\ UNCHANGED bids
       ELSE IF ~BidExists(project_id, bid_id)
       THEN /\ resp' = Abort("accept_bid", 404)
            /\ UNCHANGED bids
       ELSE /\ bids' = Flush(bids,
                             LoadBids(bids, project_id, bid_id, bids[bid_id].accepted),
                             bid_id)
            /\ resp' = Redirect("accept_bid", "project_detail", "success")

(* The same handler as three steps of a worker thread, so that two         *)
(* requests interleave: lines 220-223, line 225, lines 226-228.            *)
AcceptFetch(w, s, project_id, bid_id) ==
    /\ req[w].pc = "idle"
    /\ UNCHANGED <<users, projects, bids, session>>
    /\ IF ~IsAuthenticated(s)
       THEN /\ resp' = Unauthorized("accept_bid")
            /\ UNCHANGED req
       ELSE IF project_id \notin DOMAIN projects
       THEN /\ resp' = Abort("accept_bid", 404)
            /\ UNCHANGED req
       ELSE IF ~IsOwner(project_id, session[s])
       THEN /\ resp' = Abort("accept_bid", 403)
            /\ UNCHANGED req
       ELSE IF ~BidExists(project_id, bid_id)
       THEN /\ resp' = Abort("accept_bid", 404)
            /\ UNCHANGED req
       ELSE /\ req' = [req EXCEPT ![w] =
                         [pc |-> "fetched",
                          project_id |-> project_id, bid_id |-> bid_id,
                          target_accepted |-> bids[bid_id].accepted,
                          loaded |-> <<>>]]
            /\ UNCHANGED resp

AcceptLoad(w) ==
    /\ req[w].pc = "fetched"
    /\ req' = [req EXCEPT ![w].pc = "loaded",
                          ![w].loaded = LoadBids(bids, req[w].project_id,
                                                 req[w].bid_id,
                                                 req[w].target_accepted)]
    /\ UNCHANGED <<users, projects, bids, session, resp>>

AcceptCommit(w) ==
    /\ req[w].pc = "loaded"
    /\ bids' = Flush(bids, req[w].loaded, req[w].bid_id)
    /\ req' = [req EXCEPT ![w] = Idle]
    /\ resp' = Redirect("accept_bid", "project_detail", "success")
    /\ UNCHANGED <<users, projects, session>>

----------------------------------------------------------------------------
(* Specifications                                                          *)

(* The ids a request names: every existing row and one id that does not exist. *)
ProjectIds == 1..(Len(projects) + 1)
BidIds == 1..(Len(bids) + 1)

Handlers ==
    \/ \E s \in Browsers, f \in RegisterForms, salt \in Salts :
          Register(s, f[1], f[2], f[3], salt)
    \/ \E s \in Browsers, u \in IdentifierInputs, p \in PasswordInputs : Login(s, u, p)
    \/ \E s \in Browsers : Logout(s)
    \/ \E s \in Browsers, f \in ProjectForms : NewProject(s, f[1], f[2])
    \/ \E s \in Browsers, p \in ProjectIds, t \in TextInputs : PlaceBid(s, p, t)

Next ==
    \/ Handlers
    \/ \E s \in Browsers, p \in ProjectIds, b \in BidIds : AcceptBid(s, p, b)

(* Requests handled one at a time. *)
Spec == Init /\ [][Next]_vars

NextConc ==
    \/ Handlers /\ Rows' <= MaxRowsConc
    \/ \E w \in Workers, s \in Browsers, p \in ProjectIds, b \in BidIds :
          AcceptFetch(w, s, p, b)
    \/ \E w \in Workers : AcceptLoad(w)
    \/ \E w \in Workers : AcceptCommit(w)

(* accept_bid requests served by concurrent worker threads. *)
SpecConc == Init /\ [][NextConc]_vars

----------------------------------------------------------------------------
(* Properties.  A step property of the form "every step that is a request  *)
(* R with inputs x satisfies Q" is written  Q \/ \A x : ~R(x), with the    *)
(* tests on the inputs ahead of R(x).                                      *)

Flags == [i \in DOMAIN bids |-> bids[i].accepted]
BidsOf(p) == {i \in DOMAIN bids : bids[i].project_id = p}
AcceptedOf(p) == {i \in BidsOf(p) : bids[i].accepted}
Tables == <<users, projects, bids>>
Trimmed(x) == RStrip(LStrip(x))
Matches(U, id, pw) ==
    /\ users[U].username = Trimmed(id) \/ users[U].email = Trimmed(id)
    /\ users[U].password_hash.digest = Digest(users[U].password_hash.salt, pw)

(* accept_bid answered a logged-in browser with its redirect: it went through *)
AcceptDone ==
    /\ resp = [endpoint |-> "accept_bid", status |-> 302]
    /\ \E s \in Browsers : session[s] # Anonymous

(* C1: whatever requests were served one after the other, every project    *)
(* has at most one bid whose accepted flag is true.                        *)
C1_AtMostOneAccepted ==
    \A p \in DOMAIN projects : Cardinality(AcceptedOf(p)) <= 1

(* C1 witness: an accept_bid went through on a project holding two bids;   *)
(* one is accepted and the other is not.                                   *)
C1_Witness ==
    /\ AcceptDone
    /\ \E p \in DOMAIN projects :
          Cardinality(BidsOf(p)) >= 2 /\ Cardinality(AcceptedOf(p)) = 1

(* C2: with accept_bid requests of one project interleaved, no reader of   *)
(* the database ever sees two of the project's bids accepted.              *)
C2_NoTwoWinners ==
    \A i \in DOMAIN bids, j \in DOMAIN bids :
        (i # j /\ bids[i].project_id = bids[j].project_id /\ bids[i].accepted)
            => ~bids[j].accepted

(* C3: an accept_bid by a logged-in user who does not own the project is   *)
(* answered 403 and leaves the accepted flag of every bid as it was.       *)
C3_NonOwnerForbidden ==
    [][\/ resp'.status = 403 /\ Flags' = Flags
       \/ \A s \in Browsers, p \in DOMAIN projects, b \in BidIds :
             ~ /\ session[s] # Anonymous
               /\ projects[p].owner_id # session[s]
               /\ AcceptBid(s, p, b)]_vars

(* C3 witness: a 403 was answered while the project's owner is another     *)
(* user and a bid of the project is accepted.                              *)
C3_Witness ==
    /\ resp = [endpoint |-> "accept_bid", status |-> 403]
    /\ \E s \in Browsers, p \in DOMAIN projects :
          /\ session[s] # Anonymous
          /\ projects[p].owner_id # session[s]
          /\ AcceptedOf(p) # {}

(* C4: no two users share a username or an email, and a register whose     *)
(* username or email is already taken adds no user and logs nobody in.     *)
C4_UniqueIdentity ==
    /\ [](\A i \in DOMAIN users, j \in DOMAIN users :
            i # j => /\ users[i].username # users[j].username
                     /\ users[i].email # users[j].email)
    /\ [][\/ users' = users /\ session' = session
          \/ \A s \in Browsers, f \in RegisterForms, salt \in Salts :
                ~ /\ \E i \in DOMAIN users :
                        \/ users[i].username = Trimmed(f[1])
                        \/ users[i].email = Lower(Trimmed(f[2]))
                  /\ Register(s, f[1], f[2], f[3], salt)]_vars

(* C4 witness: two users are registered, and a register by an anonymous    *)
(* browser was just answered without logging anybody in.                   *)
C4_Witness ==
    /\ Len(users) = 2
    /\ resp.endpoint = "register"
    /\ \A s \in Browsers : session[s] = Anonymous

(* C5: a login by an anonymous browser logs a user in only if the          *)
(* identifier (trimmed, as the view trims it) is that user's username or   *)
(* email and the password is that user's; and it does log in whenever some *)
(* user has that identifier and that password.                             *)
C5_LoginIffCredentials ==
    [][\A s \in Browsers, id \in IdentifierInputs, pw \in PasswordInputs :
          (session[s] = Anonymous /\ Login(s, id, pw))
          => /\ session'[s] # Anonymous => Matches(session'[s], id, pw)
             /\ (\E U \in DOMAIN users : Matches(U, id, pw))
                   => session'[s] # Anonymous]_vars

(* C6: an accept_bid by the owner that names a bid which does not exist or *)
(* belongs to another project is answered 404 and changes no flag.         *)
C6_ForeignBidNotFound ==
    [][\/ resp'.status = 404 /\ Flags' = Flags
       \/ \A s \in Browsers, p \in DOMAIN projects, b \in BidIds :
             ~ /\ session[s] # Anonymous
               /\ projects[p].owner_id = session[s]
               /\ (b \notin DOMAIN bids \/ bids[b].project_id # p)
               /\ AcceptBid(s, p, b)]_vars

(* C6 witness: accept_bid answered 404 to a user who owns a project with   *)
(* an accepted bid, while a bid of another project exists.                 *)
C6_Witness ==
    /\ resp = [endpoint |-> "accept_bid", status |-> 404]
    /\ \E s \in Browsers, p \in DOMAIN projects :
          /\ projects[p].owner_id = session[s]
          /\ AcceptedOf(p) # {}
          /\ \E b \in DOMAIN bids : bids[b].project_id # p

(* C7: an accept_bid by the owner of project p on a bid b of p is answered *)
(* with the redirect, and after it b is accepted and no other bid of p is. *)
C7_TargetAcceptedOthersCleared ==
    [][\A s \in Browsers, p \in DOMAIN projects, b \in DOMAIN bids :
          ( /\ session[s] # Anonymous
            /\ projects[p].owner_id = session[s]
            /\ bids[b].project_id = p
            /\ AcceptBid(s, p, b) )
          => /\ resp'.status = 302
             /\ DOMAIN bids' = DOMAIN bids
             /\ bids'[b].accepted
             /\ \A j \in DOMAIN bids' :
                   (j # b /\ bids'[j].project_id = p) => ~bids'[j].accepted]_vars

(* C7 witness: after an accept_bid that went through, the later of two     *)
(* bids of a project is the accepted one and the earlier one is not.       *)
C7_Witness ==
    /\ AcceptDone
    /\ \E i \in DOMAIN bids, j \in DOMAIN bids :
          /\ i < j
          /\ bids[i].project_id = bids[j].project_id
          /\ ~bids[i].accepted
          /\ bids[j].accepted

(* C8: a register, new_project or place_bid that leaves a required field   *)
(* empty (or blank, where the view trims it) changes no row and no session.*)
C8_MissingFieldNoChange ==
    [][\/ Tables' = Tables /\ session' = session
       \/ /\ \A s \in Browsers, f \in RegisterForms, salt \in Salts :
               ~ /\ (~Filled(f[1]) \/ ~Filled(f[2]) \/ f[3] = <<>>)
                 /\ Register(s, f[1], f[2], f[3], salt)
          /\ \A s \in Browsers, f \in ProjectForms :
               ~ /\ (~Filled(f[1]) \/ ~Filled(f[2]))
                 /\ NewProject(s, f[1], f[2])
          /\ \A s \in Browsers, p \in ProjectIds, t \in TextInputs :
               ~ /\ ~Filled(t)
                 /\ PlaceBid(s, p, t)]_vars

(* C8 witness: a logged-in user was sent back from new_project although    *)
(* the table has room for a project, so the form was refused.              *)
C8_Witness ==
    /\ resp = [endpoint |-> "new_project", status |-> 302]
    /\ \E s \in Browsers : session[s] # Anonymous
    /\ projects = <<>>
    /\ Rows < MaxRows

(* C9: a bid is created pending; it becomes accepted only in an accept_bid *)
(* of its project's owner that names it; it becomes pending again only in  *)
(* an accept_bid that accepts another bid of the same project.             *)
C9_FlagTransitions ==
    [][/\ DOMAIN bids \subseteq DOMAIN bids'
       /\ \A i \in DOMAIN bids' :
            /\ i \notin DOMAIN bids => ~bids'[i].accepted
            /\ (i \in DOMAIN bids /\ ~bids[i].accepted /\ bids'[i].accepted)
               => \E s \in Browsers :
                     /\ session[s] # Anonymous
                     /\ session[s] = projects[bids[i].project_id].owner_id
                     /\ AcceptBid(s, bids[i].project_id, i)
            /\ (i \in DOMAIN bids /\ bids[i].accepted /\ ~bids'[i].accepted)
               => \E s \in Browsers, j \in DOMAIN bids :
                     /\ j # i
                     /\ bids[j].project_id = bids[i].project_id
                     /\ bids'[j].accepted
                     /\ AcceptBid(s, bids[i].project_id, j)]_vars

(* C9 witness: a bid placed by a user who does not own the project is      *)
(* accepted, beside a pending bid of the same project.                     *)
C9_Witness ==
    \E i \in DOMAIN bids, j \in DOMAIN bids :
        /\ bids[i].project_id = bids[j].project_id
        /\ bids[i].accepted /\ ~bids[j].accepted
        /\ bids[i].bidder_id # projects[bids[i].project_id].owner_id

(* C10: new_project, place_bid and accept_bid change no row for an         *)
(* anonymous browser; a created project or bid records the user of the     *)
(* issuing browser's session; and a session is bound to a user only by a   *)
(* register or a login of that browser, and unbound only by its logout.    *)
C10_AuthenticatedOnly ==
    [][/\ \/ Tables' = Tables
          \/ \A s \in Browsers :
                session[s] = Anonymous
                => /\ \A f \in ProjectForms : ~NewProject(s, f[1], f[2])
                   /\ \A p \in ProjectIds, t \in TextInputs : ~PlaceBid(s, p, t)
                   /\ \A p \in ProjectIds, b \in BidIds : ~AcceptBid(s, p, b)
       /\ \/ projects' = projects
          \/ \A s \in Browsers, f \in ProjectForms :
                NewProject(s, f[1], f[2])
                => /\ Len(projects') = Len(projects) + 1
                   /\ SubSeq(projects', 1, Len(projects)) = projects
                   /\ session[s] \in DOMAIN users
                   /\ projects'[Len(projects')].owner_id = session[s]
       /\ \/ DOMAIN bids' = DOMAIN bids
          \/ \A s \in Browsers, p \in ProjectIds, t \in TextInputs :
                PlaceBid(s, p, t)
                => /\ Len(bids') = Len(bids) + 1
                   /\ SubSeq(bids', 1, Len(bids)) = bids
                   /\ session[s] \in DOMAIN users
                   /\ bids'[Len(bids')].bidder_id = session[s]
       /\ \A s \in Browsers :
            session'[s] # session[s]
            => IF session'[s] = Anonymous
               THEN Logout(s)
               ELSE \/ \E f \in RegisterForms, salt \in Salts :
                          /\ Register(s, f[1], f[2], f[3], salt)
                          /\ session'[s] = Len(users')
                          /\ Len(users') = Len(users) + 1
                    \/ \E id \in IdentifierInputs, pw \in PasswordInputs :
                          /\ Login(s, id, pw)
                          /\ session'[s] \in DOMAIN users]_vars

(* C10 witness: after a logout the browser is anonymous, place_bid sent it *)
(* to the login page, and the projects and bids made before remain.        *)
C10_Witness ==
    /\ resp = [endpoint |-> "place_bid", status |-> 302]
    /\ \A s \in Browsers : session[s] = Anonymous
    /\ projects # <<>>
    /\ bids # <<>>
    /\ Rows < MaxRows

====
